---- MODULE Spec2Model ----
(***************************************************************************)
(* A model of Overdr1veEnv (data_experiment/overdr1ve_env.py): the tables  *)
(* given to the constructor, the episode state (track cursor, accumulated  *)
(* return, track order) and the two operations reset() and step(action).   *)
(*                                                                         *)
(* Numbers.  Lap counts, bonuses of the tracks and points are integers, as *)
(* in the code.  Core power is a float in the code; the model counts it in *)
(* units of 1/CoreScale of one core-power point, so that a car's core and  *)
(* an upgrade's core bonus may carry a fraction of a point, while a        *)
(* track's type bonus (an int) is a whole number of points.  The           *)
(* tie-break noise normal(0, 1e-6) is a choice among NoiseValues, in these *)
(* units: two draws differ by less than one point, not by less than every  *)
(* difference two floats can have.                                         *)
(*                                                                         *)
(* An Optional value is <<>> for None and <<v>> for the value v.           *)
(***************************************************************************)
EXTENDS Integers, Sequences, FiniteSets

MaxTracks == 2
MaxCars == 2
MaxUpgrades == 1
MaxPoints == 2
CoreScale == 4

VARIABLES
  tracks_df_original,         \* self._tracks_df_original
  cars_df,                    \* self.cars_df
  upgrades_df,                \* self.upgrades_df (Optional)
  agent_car_id,               \* self.agent_car_id
  points_arg,                 \* the constructor's points_by_position argument (Optional)
  shuffle_tracks_each_reset,  \* self.shuffle_tracks_each_reset
  points_by_position,         \* self.points_by_position
  actions_catalog,            \* self.actions_catalog
  tracks_df,                  \* self._tracks_df
  track_idx,                  \* self.track_idx
  total_reward,               \* self.total_reward
  ret,                        \* what the last call returned or raised
  grid,                       \* the locals of the last race step() simulated
  reset_called,               \* history: reset() has been called since construction
  rewards                     \* history: rewards of the successful steps since the last reset

config == <<tracks_df_original, cars_df, upgrades_df, agent_car_id, points_arg,
            shuffle_tracks_each_reset, points_by_position, actions_catalog>>
vars == <<tracks_df_original, cars_df, upgrades_df, agent_car_id, points_arg,
          shuffle_tracks_each_reset, points_by_position, actions_catalog,
          tracks_df, track_idx, total_reward, ret, grid, reset_called, rewards>>

None == <<>>
Some(v) == <<v>>

DEFAULT_POINTS_BY_POSITION == <<25, 18, 15, 12, 10, 8, 6, 4, 2, 1>>

-----------------------------------------------------------------------------
(* The inputs: the first n rows of small tables, for every n up to a bound. *)

\* A 'Type Bonus' cell is its whitespace-separated parts.
TrackRowAt(i) ==
  CASE i % 3 = 1 -> [Track |-> "Track 01", TotalLaps |-> 2, TrackType |-> "Sunny",
                     TypeBonus |-> <<"1", "Core", "Power">>]
    [] i % 3 = 2 -> [Track |-> "Track 02", TotalLaps |-> 3, TrackType |-> "Night",
                     TypeBonus |-> <<"1", "Max", "Laps">>]
    [] OTHER     -> [Track |-> "Track 03", TotalLaps |-> 2, TrackType |-> "Night",
                     TypeBonus |-> <<"fast">>]

\* Two cores a fraction of a point apart; the stronger car has fewer laps.
CarRowAt(i) ==
  IF i % 2 = 1
  THEN [Car |-> "Car 01", CorePower |-> 2 * CoreScale, MaxLaps |-> 2]
  ELSE [Car |-> "Car 02", CorePower |-> 2 * CoreScale + 1, MaxLaps |-> 1]

\* Rows of upgrades_df after _validate_upgrades, with their _CondTypesSet.
UpgradeRowAt(i) ==
  IF i % 2 = 1
  THEN [Upgrade |-> "Upgrade 01", CorePower |-> 0, MaxLaps |-> 1, CondTypesSet |-> {"Sunny"}]
  ELSE [Upgrade |-> "Upgrade 02", CorePower |-> 1, MaxLaps |-> 0, CondTypesSet |-> {}]

PointAt(i) == CASE i = 1 -> 5 [] i = 2 -> 3 [] OTHER -> 1

TrackTables   == {[i \in 1..n |-> TrackRowAt(i)] : n \in 0..MaxTracks}
CarTables     == {[i \in 1..n |-> CarRowAt(i)] : n \in 1..MaxCars}
UpgradeTables == {[i \in 1..n |-> UpgradeRowAt(i)] : n \in 0..MaxUpgrades}
PointTables   == {[i \in 1..n |-> PointAt(i)] : n \in 0..MaxPoints}

\* The values normal(0, 1e-6) is modelled to take, in units of 1/CoreScale.
NoiseValues == {-1, 0, 1}

-----------------------------------------------------------------------------
(* Pure helpers.                                                            *)

\* int(parts[0]): the parts that parse as an integer.
IntOf(s) == CASE s = "1" -> Some(1) [] s = "2" -> Some(2) [] OTHER -> None

\* "Core" in parts[1:] / "Max" in parts[1:]
InTail(w, parts) == \E i \in 2..Len(parts) : parts[i] = w

\* _parse_type_bonus: <<bonus_core, bonus_max>>
ParseTypeBonus(parts) ==
  IF Len(parts) = 0 THEN <<0, 0>>
  ELSE IF IntOf(parts[1]) = None THEN <<0, 0>>
  ELSE IF InTail("Core", parts) THEN <<IntOf(parts[1])[1], 0>>
  ELSE IF InTail("Max", parts) THEN <<0, IntOf(parts[1])[1]>>
  ELSE <<0, 0>>

\* points_by_position or DEFAULT_POINTS_BY_POSITION
PointsOrDefault(arg) ==
  IF arg # None /\ Len(arg[1]) > 0 THEN arg[1] ELSE DEFAULT_POINTS_BY_POSITION

\* The points table of __init__: padded with zeros to the number of cars.
BuildPointsTable(arg, ncars) ==
  LET t == PointsOrDefault(arg) IN
  IF Len(t) < ncars THEN t \o [i \in 1..(ncars - Len(t)) |-> 0] ELSE t

NoUpgrade == [name |-> "No Upgrade", add_core |-> 0, add_max |-> 0, cond |-> {}]

\* _build_actions
BuildActions(up) ==
  IF up = None \/ Len(up[1]) = 0 THEN <<NoUpgrade>>
  ELSE <<NoUpgrade>> \o
       [i \in 1..Len(up[1]) |->
          [name |-> up[1][i].Upgrade, add_core |-> up[1][i].CorePower,
           add_max |-> up[1][i].MaxLaps, cond |-> up[1][i].CondTypesSet]]

n_actions == Len(actions_catalog)

\* actions_catalog[i] of a Python list: a negative index counts from the end.
ActionAt(i) == actions_catalog[IF i < 0 THEN n_actions + i + 1 ELSE i + 1]

agent_car == cars_df[agent_car_id + 1]

\* cars_df.drop(agent_car_id).reset_index(drop=True)
opponents_df ==
  [i \in 1..(Len(cars_df) - 1) |->
     IF i <= agent_car_id THEN cars_df[i] ELSE cars_df[i + 1]]

\* sorted(unique track types of the original table), as the set of its members
TRACK_TYPES == {tracks_df_original[i].TrackType : i \in 1..Len(tracks_df_original)}

RECURSIVE SumSeq(_)
SumSeq(s) == IF Len(s) = 0 THEN 0 ELSE s[1] + SumSeq(Tail(s))

\* The orders sample(frac=1.0) can produce.
TrackOrders(s) ==
  { [i \in 1..Len(s) |-> s[p[i]]] :
      p \in {q \in [1..Len(s) -> 1..Len(s)] : \A i, j \in 1..Len(s) : q[i] = q[j] => i = j} }

-----------------------------------------------------------------------------
(* The helpers of the environment.                                          *)

\* _track_row's bounds check
TrackRowOk(tdf, idx) == 0 <= idx /\ idx < Len(tdf)

\* _track_row: self._tracks_df.iloc[self.track_idx]
TrackRow(tdf, idx) == tdf[idx + 1]

\* A mean is <<sum, count>>; the mean of no opponents is NaN, here <<0, 0>>.
MeanOf(s) == <<SumSeq(s), Len(s)>>

\* _get_obs, for the track the cursor idx is at in the order tdf
GetObs(tdf, idx) ==
  LET tr == TrackRow(tdf, idx) IN
  [ agent_core    |-> agent_car.CorePower,
    agent_max     |-> agent_car.MaxLaps,
    onehot        |-> [t \in TRACK_TYPES |-> IF t = tr.TrackType THEN 1 ELSE 0],
    total_laps    |-> tr.TotalLaps,
    opp_mean_core |-> MeanOf([i \in 1..Len(opponents_df) |-> opponents_df[i].CorePower]),
    opp_mean_max  |-> MeanOf([i \in 1..Len(opponents_df) |-> opponents_df[i].MaxLaps]) ]

\* np.zeros(self.observation_space.shape)
ZeroObs ==
  [ agent_core |-> 0, agent_max |-> 0, onehot |-> [t \in TRACK_TYPES |-> 0],
    total_laps |-> 0, opp_mean_core |-> <<0, 1>>, opp_mean_max |-> <<0, 1>> ]

UpgradeAlwaysApplies(action_idx, track_type) == TRUE

\* _upgrade_applies_on_track
UpgradeAppliesOnTrack(action_idx, track_type) ==
  LET cond == ActionAt(action_idx).cond IN
  IF Cardinality(cond) = 0 THEN TRUE ELSE track_type \in cond

\* _effective_stats_for_car: <<core, max_laps>>
EffectiveStatsForCar(base_core, base_max, track_type, track_bonus_core, track_bonus_max, action_idx) ==
  LET core     == base_core + track_bonus_core * CoreScale
      max_laps == base_max + track_bonus_max
      a        == ActionAt(action_idx)
  IN IF UpgradeAppliesOnTrack(action_idx, track_type)
     THEN <<core + a.add_core, max_laps + a.add_max>>
     ELSE <<core, max_laps>>

IsDnfInclusive(max_laps, req_laps) == max_laps <= req_laps

\* agent_max < req_laps, opp_max_eff < req_laps
IsDnf(max_laps, req_laps) == max_laps < req_laps

\* The sort key of competitor i: (grid_dnf[i], -(grid_core[i] + noise[i])).
KeyBefore(grid_core, grid_dnf, noise, i, j) ==
  \/ ~grid_dnf[i] /\ grid_dnf[j]
  \/ /\ grid_dnf[i] = grid_dnf[j]
     /\ -(grid_core[i] + noise[i]) < -(grid_core[j] + noise[j])

KeyEqual(grid_core, grid_dnf, noise, i, j) ==
  /\ grid_dnf[i] = grid_dnf[j]
  /\ grid_core[i] + noise[i] = grid_core[j] + noise[j]

\* order.index(agent_index) + 1 in the stable sort of the indices by key
PositionOf(grid_core, grid_dnf, noise, agent_index) ==
  1 + Cardinality({ i \in 1..Len(grid_core) :
        \/ KeyBefore(grid_core, grid_dnf, noise, i, agent_index)
        \/ /\ KeyEqual(grid_core, grid_dnf, noise, i, agent_index)
           /\ i < agent_index })

PointsIgnoringDnf(position, dnf) == points_by_position[position]

\* self.points_by_position[position - 1] if not grid_dnf[agent_index] else 0
PointsFor(position, dnf) == IF ~dnf THEN points_by_position[position] ELSE 0

\* _rank_and_points: <<position, points>>
RankAndPoints(grid_core, grid_dnf, agent_index, noise) ==
  LET position == PositionOf(grid_core, grid_dnf, noise, agent_index)
  IN <<position, PointsFor(position, grid_dnf[agent_index])>>

ActionValidNoLowerBound(action) == action < n_actions

\* 0 <= int(action) < self.n_actions
ActionValid(action) == 0 <= action /\ action < n_actions

TerminatedOffByOne(idx, n) == idx + 1 >= n

\* terminated = self.track_idx >= len(self._tracks_df)
Terminated(idx, n) == idx >= n

AccumulateOverwrite(total, reward) == reward

\* self.total_reward += reward
Accumulate(total, reward) == total + reward

\* "episode_return": self.total_reward if terminated else None
EpisodeReturn(terminated, total) == IF terminated THEN Some(total) ELSE None

-----------------------------------------------------------------------------
(* What a call returns or raises.                                           *)

NoInfo ==
  [ track |-> "", track_type |-> "", required_laps |-> 0, type_bonus_core |-> 0,
    type_bonus_max |-> 0, action |-> "", agent_effective_core |-> 0,
    agent_effective_max |-> 0, agent_dnf |-> FALSE, position |-> 0, points |-> 0,
    episode_return |-> None ]

NoGrid ==
  [ opp_core_eff |-> <<>>, opp_max_eff |-> <<>>, opp_dnf |-> <<>>,
    grid_core |-> <<>>, grid_dnf |-> <<>> ]

Returned(op, action, obs, reward, terminated, info) ==
  [ op |-> op, action |-> action, err |-> "none", obs |-> obs, reward |-> reward,
    terminated |-> terminated, info |-> info ]

Raised(op, action, err) ==
  [ op |-> op, action |-> action, err |-> err, obs |-> ZeroObs, reward |-> 0,
    terminated |-> FALSE, info |-> NoInfo ]

-----------------------------------------------------------------------------
(* The state after __init__.                                                *)

Init ==
  /\ tracks_df_original \in TrackTables
  /\ cars_df \in CarTables
  /\ upgrades_df \in {None} \cup {Some(u) : u \in UpgradeTables}
  /\ agent_car_id \in 0..(Len(cars_df) - 1)
  /\ points_arg \in {None} \cup {Some(p) : p \in PointTables}
  /\ shuffle_tracks_each_reset \in BOOLEAN
  /\ points_by_position = BuildPointsTable(points_arg, Len(cars_df))
  /\ actions_catalog = BuildActions(upgrades_df)
  /\ tracks_df = tracks_df_original
  /\ track_idx = 0
  /\ total_reward = 0
  /\ ret = Raised("init", 0, "none")
  /\ grid = NoGrid
  /\ reset_called = FALSE
  /\ rewards = <<>>

-----------------------------------------------------------------------------
(* reset(): the new order, the cursor and the return are assigned before    *)
(* _get_obs reads the first track, which raises when there is none.         *)

Reset ==
  \E order \in (IF shuffle_tracks_each_reset
                THEN TrackOrders(tracks_df_original)
                ELSE {tracks_df_original}) :
    /\ tracks_df' = order
    /\ track_idx' = 0
    /\ total_reward' = 0
    /\ ret' = IF TrackRowOk(order, 0)
              THEN Returned("reset", 0, GetObs(order, 0), 0, FALSE, NoInfo)
              ELSE Raised("reset", 0, "RuntimeError")
    /\ reset_called' = TRUE
    /\ rewards' = <<>>
    /\ UNCHANGED <<config, grid>>

(* step(action): the action is checked, then the current track is read,     *)
(* then the race is run, the points are added and the cursor advances.      *)

Step(action) ==
  IF ~ActionValid(action)
  THEN /\ ret' = Raised("step", action, "ValueError")
       /\ UNCHANGED <<config, tracks_df, track_idx, total_reward, grid,
                      reset_called, rewards>>
  ELSE IF ~TrackRowOk(tracks_df, track_idx)
  THEN /\ ret' = Raised("step", action, "RuntimeError")
       /\ UNCHANGED <<config, tracks_df, track_idx, total_reward, grid,
                      reset_called, rewards>>
  ELSE
    LET tr           == TrackRow(tracks_df, track_idx)
        track_type   == tr.TrackType
        req_laps     == tr.TotalLaps
        bonus        == ParseTypeBonus(tr.TypeBonus)
        bonus_core   == bonus[1]
        bonus_max    == bonus[2]
        agent_eff    == EffectiveStatsForCar(agent_car.CorePower, agent_car.MaxLaps,
                          track_type, bonus_core, bonus_max, action)
        agent_core   == agent_eff[1]
        agent_max    == agent_eff[2]
        agent_dnf    == IsDnf(agent_max, req_laps)
        nopp         == Len(opponents_df)
        opp_core_eff == [i \in 1..nopp |-> opponents_df[i].CorePower + bonus_core * CoreScale]
        opp_max_eff  == [i \in 1..nopp |-> opponents_df[i].MaxLaps + bonus_max]
        opp_dnf      == [i \in 1..nopp |-> IsDnf(opp_max_eff[i], req_laps)]
        grid_core    == opp_core_eff \o <<agent_core>>
        grid_dnf     == opp_dnf \o <<agent_dnf>>
    IN
    \* _rank_and_points draws the noise: one outcome for each draw
    \E rp \in { RankAndPoints(grid_core, grid_dnf, Len(grid_core), noise) :
                  noise \in [1..Len(grid_core) -> NoiseValues] } :
    LET pos          == rp[1]
        pts          == rp[2]
        reward       == pts
        new_total    == Accumulate(total_reward, reward)
        new_idx      == track_idx + 1
        terminated   == Terminated(new_idx, Len(tracks_df))
        obs          == IF terminated THEN ZeroObs ELSE GetObs(tracks_df, new_idx)
        info         == [ track |-> tr.Track, track_type |-> track_type,
                          required_laps |-> req_laps, type_bonus_core |-> bonus_core,
                          type_bonus_max |-> bonus_max, action |-> ActionAt(action).name,
                          agent_effective_core |-> agent_core,
                          agent_effective_max |-> agent_max, agent_dnf |-> agent_dnf,
                          position |-> pos, points |-> pts,
                          episode_return |-> EpisodeReturn(terminated, new_total) ]
    IN /\ total_reward' = new_total
       /\ track_idx' = new_idx
       /\ ret' = Returned("step", action, obs, reward, terminated, info)
       /\ grid' = [ opp_core_eff |-> opp_core_eff, opp_max_eff |-> opp_max_eff,
                    opp_dnf |-> opp_dnf, grid_core |-> grid_core, grid_dnf |-> grid_dnf ]
       /\ rewards' = Append(rewards, reward)
       /\ UNCHANGED <<config, tracks_df, reset_called>>

\* The caller may pass any integer; one below and one above the range are tried.
Next ==
  \/ Reset
  \/ \E action \in (-1)..n_actions : Step(action)

Spec == Init /\ [][Next]_vars

-----------------------------------------------------------------------------
(* What the properties below read.                                          *)

\* The last call was a step() that returned.
StepReturned == ret.op = "step" /\ ret.err = "none"

\* The track the last returned step() raced: the cursor has moved past it.
RacedTrack == tracks_df[track_idx]

\* The catalog entry of the action the last step() was given.
ChosenAction == actions_catalog[ret.action + 1]

\* The chosen action's eligibility set is empty or holds the raced track's type.
ChosenEligible ==
  ChosenAction.cond = {} \/ RacedTrack.TrackType \in ChosenAction.cond

FinishingOpponents == {i \in 1..Len(opponents_df) : ~grid.opp_dnf[i]}

-----------------------------------------------------------------------------
(* C1: for N >= 1 tracks, after reset() the k-th step() with a valid action *)
(* returns terminated = FALSE for k < N and TRUE for k = N and moves the    *)
(* cursor by one; every step() after the terminating one raises and leaves  *)
(* the cursor and the accumulated return as they were.                      *)
C1_EpisodeHasExactlyNSteps ==
  [][ (reset_called /\ ret'.op = "step" /\ Len(tracks_df) >= 1) =>
        IF Len(rewards) < Len(tracks_df)
        THEN ret'.action \in 0..(Len(actions_catalog) - 1) =>
               /\ ret'.err = "none"
               /\ ret'.terminated = (Len(rewards) + 1 = Len(tracks_df))
               /\ track_idx' = track_idx + 1
               /\ Len(rewards') = Len(rewards) + 1
        ELSE /\ ret'.err # "none"
             /\ track_idx' = track_idx
             /\ total_reward' = total_reward ]_vars

\* A step() was rejected after the second, terminating step of a two-track episode.
C1_Witness ==
  /\ reset_called /\ Len(tracks_df) = 2 /\ Len(rewards) = 2
  /\ ret.op = "step" /\ ret.err = "RuntimeError" /\ ret.action = 0
  /\ track_idx = 2

(* C2: step(a) with a outside 0..n_actions-1 raises and leaves the cursor,  *)
(* the accumulated return and the track order as they were.                 *)
C2_InvalidActionChangesNothing ==
  [][ (ret'.op = "step" /\ ret'.action \notin 0..(Len(actions_catalog) - 1)) =>
        /\ ret'.err # "none"
        /\ track_idx' = track_idx
        /\ total_reward' = total_reward
        /\ tracks_df' = tracks_df
        /\ rewards' = rewards ]_vars

\* step(-1) was rejected in the middle of an episode, a track still to race.
C2_Witness ==
  /\ reset_called /\ ret.op = "step" /\ ret.action = -1 /\ ret.err = "ValueError"
  /\ track_idx = 1 /\ Len(tracks_df) = 2

(* C3: after every step, the agent and each opponent is flagged DNF iff its *)
(* effective max laps (base + track bonus, + the upgrade's bonus for the    *)
(* agent when eligible) is strictly less than the track's required laps.    *)
C3_DnfIffShortOfLaps ==
  StepReturned =>
    LET agent_max == agent_car.MaxLaps + ret.info.type_bonus_max
                     + (IF ChosenEligible THEN ChosenAction.add_max ELSE 0)
    IN /\ ret.info.required_laps = RacedTrack.TotalLaps
       /\ ret.info.agent_dnf <=> (agent_max < RacedTrack.TotalLaps)
       /\ Len(grid.opp_dnf) = Len(opponents_df)
       /\ \A i \in 1..Len(opponents_df) :
            grid.opp_dnf[i] <=>
              (opponents_df[i].MaxLaps + ret.info.type_bonus_max < RacedTrack.TotalLaps)

\* The agent had exactly the required laps and finished; an opponent did not finish.
C3_Witness ==
  /\ StepReturned
  /\ ret.info.agent_effective_max = ret.info.required_laps
  /\ ~ret.info.agent_dnf
  /\ \E i \in 1..Len(opponents_df) : grid.opp_dnf[i]

(* C4: after every step, a finishing agent's position is 1 + the number of  *)
(* finishing opponents with strictly greater effective core + t, with       *)
(* 0 <= t <= the number of finishing opponents with equal core; a DNF       *)
(* agent's position is greater than the number of finishers.                *)
C4_PositionFollowsCore ==
  StepReturned =>
    LET greater == {i \in FinishingOpponents :
                      grid.opp_core_eff[i] > ret.info.agent_effective_core}
        equal   == {i \in FinishingOpponents :
                      grid.opp_core_eff[i] = ret.info.agent_effective_core}
    IN IF ret.info.agent_dnf
       THEN ret.info.position > Cardinality(FinishingOpponents)
       ELSE /\ ret.info.position >= 1 + Cardinality(greater)
            /\ ret.info.position <= 1 + Cardinality(greater) + Cardinality(equal)

(* C5: the reward and the 'points' field of a step are equal; they are 0    *)
(* when the agent is DNF, whatever its position, and otherwise the points   *)
(* table's entry for the agent's position.                                  *)
C5_PointsZeroOnDnf ==
  StepReturned =>
    /\ ret.reward = ret.info.points
    /\ ret.info.position \in 1..Len(points_by_position)
    /\ ret.info.agent_dnf => ret.info.points = 0
    /\ ~ret.info.agent_dnf => ret.info.points = points_by_position[ret.info.position]

\* A DNF agent stood at a position the table pays for, and got nothing.
C5_Witness ==
  /\ StepReturned /\ ret.info.agent_dnf
  /\ points_by_position[ret.info.position] > 0
  /\ ret.reward = 0

(* C6: a custom points table of any length L >= 0 is kept at positions 1..L,*)
(* the table in use is at least as long as the number of cars, and a        *)
(* finishing agent at a position beyond L is awarded 0.                     *)
C6_CustomTableKeptAndPadded ==
  points_arg # None =>
    LET L == Len(points_arg[1])
    IN /\ Len(points_by_position) >= Len(cars_df)
       /\ \A i \in 1..L : points_by_position[i] = points_arg[1][i]
       /\ (StepReturned /\ ~ret.info.agent_dnf /\ ret.info.position > L) =>
            ret.info.points = 0

(* C7: after every step, the agent's effective core and max laps are its    *)
(* base + the track's bonus + the chosen upgrade's bonus when the upgrade   *)
(* is eligible on the track (else + 0); every opponent's are its base + the *)
(* track's bonus, whatever the action; action 0 adds nothing.               *)
C7_BonusesApplied ==
  StepReturned =>
    LET bonus_core == ret.info.type_bonus_core * CoreScale
        bonus_max  == ret.info.type_bonus_max
    IN /\ ret.info.agent_effective_core =
            agent_car.CorePower + bonus_core
            + (IF ChosenEligible THEN ChosenAction.add_core ELSE 0)
       /\ ret.info.agent_effective_max =
            agent_car.MaxLaps + bonus_max
            + (IF ChosenEligible THEN ChosenAction.add_max ELSE 0)
       /\ Len(grid.opp_core_eff) = Len(opponents_df)
       /\ \A i \in 1..Len(opponents_df) :
            /\ grid.opp_core_eff[i] = opponents_df[i].CorePower + bonus_core
            /\ grid.opp_max_eff[i] = opponents_df[i].MaxLaps + bonus_max
       /\ ret.action = 0 =>
            /\ ret.info.agent_effective_core = agent_car.CorePower + bonus_core
            /\ ret.info.agent_effective_max = agent_car.MaxLaps + bonus_max

\* An upgrade with a bonus was chosen on a track whose type it is not for,
\* the track had a bonus of its own, and there was an opponent.
C7_Witness ==
  /\ StepReturned /\ ret.action > 0
  /\ ~ChosenEligible /\ ChosenAction.add_max > 0
  /\ ret.info.type_bonus_max > 0
  /\ Len(opponents_df) >= 1

(* C8: reset(), in any state, completes: it sets the cursor and the         *)
(* accumulated return to 0 and returns the first track's observation, or,   *)
(* when there is no track, leaves the environment Done without failing.     *)
C8_ResetAlwaysCompletes ==
  ret.op = "reset" =>
    /\ ret.err = "none"
    /\ track_idx = 0
    /\ total_reward = 0
    /\ Len(tracks_df) > 0 =>
         /\ ret.obs.total_laps = tracks_df[1].TotalLaps
         /\ ret.obs.onehot[tracks_df[1].TrackType] = 1

(* C9: a step() issued before the first reset() is rejected.                *)
C9_StepBeforeResetRejected ==
  (ret.op = "step" /\ ~reset_called) => ret.err # "none"

(* C10: the accumulated return is the sum of the rewards of the successful  *)
(* steps since the most recent reset (0 right after a reset); the detail    *)
(* record's episode_return is that return on the terminating step and None  *)
(* on every other step.                                                     *)
C10_ReturnIsSumOfRewards ==
  /\ total_reward = SumSeq(rewards)
  /\ ret.op = "reset" => total_reward = 0
  /\ StepReturned =>
       /\ rewards[Len(rewards)] = ret.reward
       /\ ret.info.episode_return =
            (IF ret.terminated THEN Some(total_reward) ELSE None)

\* A two-track episode, started by reset(), ended with points from both races.
C10_Witness ==
  /\ StepReturned /\ ret.terminated /\ reset_called
  /\ Len(rewards) = 2 /\ rewards[1] > 0 /\ rewards[2] > 0
  /\ ret.info.episode_return = Some(rewards[1] + rewards[2])

====
